---- MODULE Spec2Model ----
(***************************************************************************)
(* A model of github.com/josephcopenhaver/base32: an unpadded, case        *)
(* insensitive Crockford style base32 codec.                               *)
(*                                                                         *)
(* Bytes are naturals 0..255, byte slices and strings are sequences of     *)
(* bytes.  A []byte value is the record [isNil, elems] so that a nil slice *)
(* and an empty one stay distinct.  The native int is modelled as a signed *)
(* two's complement integer of IntBits bits.                               *)
(***************************************************************************)
EXTENDS Integers, Sequences, FiniteSets, TLC

VARIABLES
    encodeTab,  \* package level forward table, value 0..31 -> character
    decodeTab,  \* package level reverse table, byte 0..255 -> value or b32Invalid
    op,         \* name of the call that has just returned ("none" before any call)
    src,        \* its source argument
    dst,        \* its destination argument, as passed in
    ret,        \* the slice it returned; for Unsafe* the destination after the call
    err,        \* the error it returned
    panicMsg,   \* the value it panicked with, or NoPanic
    engine,     \* whether it invoked encode or decode
    lenArg,     \* the argument of a length function call
    lenRet,     \* the result of a length function call
    heap,       \* the memory that holds the buffers of the concurrent calls
    calls       \* the concurrent calls of encode and decode: buffers, position, registers

vars == <<encodeTab, decodeTab, op, src, dst, ret, err, panicMsg, engine, lenArg, lenRet, heap, calls>>

(***************************************************************************)
(* Bounds of the model.                                                    *)
(***************************************************************************)
\* width in bits of the native signed integer
IntBits == 10
\* longest run of freely chosen bytes that follows a fixed prefix of an encode source
MaxSrcTail == 5
\* longest run of freely chosen symbols that follows a fixed prefix of a decode source
MaxSymTail == 4
\* longest prefix of a reference encoding used as a decode source
MaxRefLen == 16
\* most full five byte groups in the fixed prefix of an encode source
MaxSrcGroups == 2
\* number of encode and decode calls that run concurrently
NumCalls == 2

MaxInt == 2^(IntBits - 1) - 1
MinInt == -(2^(IntBits - 1))

\* the value of x in the native signed integer type (two's complement wrap around)
WrapInt(x) == ((x - MinInt) % 2^IntBits) + MinInt

(***************************************************************************)
(* Byte arithmetic: Go's uint8 operators.                                  *)
(***************************************************************************)
Bit(x, i) == (x \div 2^i) % 2

Shl(b, k) == (b * 2^k) % 256

Shr(b, k) == b \div 2^k

Or(a, b) ==
    LET o(i) == IF Bit(a, i) = 1 \/ Bit(b, i) = 1 THEN 2^i ELSE 0
    IN  o(0) + o(1) + o(2) + o(3) + o(4) + o(5) + o(6) + o(7)

And(a, b) ==
    LET o(i) == IF Bit(a, i) = 1 /\ Bit(b, i) = 1 THEN 2^i ELSE 0
    IN  o(0) + o(1) + o(2) + o(3) + o(4) + o(5) + o(6) + o(7)

(***************************************************************************)
(* tables.go                                                               *)
(***************************************************************************)
b32Invalid == 255

\* the alphabet with I kept and Z dropped: "0123456789ABCDEFGHIJKMNPQRSTVWXY"
b32CharsWithI ==
    << 48, 49, 50, 51, 52, 53, 54, 55, 56, 57,
       65, 66, 67, 68, 69, 70, 71, 72, 73, 74, 75, 77, 78,
       80, 81, 82, 83, 84, 86, 87, 88, 89 >>

\* "0123456789ABCDEFGHJKMNPQRSTVWXYZ"
b32Chars ==
    << 48, 49, 50, 51, 52, 53, 54, 55, 56, 57,
       65, 66, 67, 68, 69, 70, 71, 72, 74, 75, 77, 78,
       80, 81, 82, 83, 84, 86, 87, 88, 89, 90 >>

\* 'a' - 'A'
b32UpToLow == 97 - 65

\* upLetter that records the upper case form only
upLetterUpperOnly(dec, v, i) ==
    [dec EXCEPT ![v] = i]

upLetter(dec, v, i) ==
    [dec EXCEPT ![v] = i, ![(v + b32UpToLow) % 256] = i]

\* the body of `for i := range b32Chars`, iterations i..31
RECURSIVE tabLoop(_, _)
tabLoop(t, i) ==
    IF i >= Len(b32Chars) THEN t
    ELSE LET v == b32Chars[i + 1]
             enc == [t.enc EXCEPT ![i] = v]
         IN  IF v > 57
             THEN tabLoop([enc |-> enc, dec |-> upLetter(t.dec, v, i)], i + 1)
             ELSE tabLoop([enc |-> enc, dec |-> [t.dec EXCEPT ![v] = i]], i + 1)

\* initTables without the alias of 'L'
initTablesNoL ==
    LET t0 == [enc |-> [i \in 0..31 |-> 0], dec |-> [c \in 0..255 |-> b32Invalid]]
        t1 == tabLoop(t0, 0)
        d1 == upLetter(t1.dec, 79, t1.dec[48])
        d2 == upLetter(d1, 73, d1[49])
    IN  [enc |-> t1.enc, dec |-> d2]

\* initTables without the loop that fills dec with b32Invalid
initTablesZeroFill ==
    LET t0 == [enc |-> [i \in 0..31 |-> 0], dec |-> [c \in 0..255 |-> 0]]
        t1 == tabLoop(t0, 0)
        d1 == upLetter(t1.dec, 79, t1.dec[48])
        d2 == upLetter(d1, 73, d1[49])
        d3 == upLetter(d2, 76, d2[49])
    IN  [enc |-> t1.enc, dec |-> d3]

\* the function literal that initialises encodeTab and decodeTab
initTables ==
    LET t0 == [enc |-> [i \in 0..31 |-> 0], dec |-> [c \in 0..255 |-> b32Invalid]]
        t1 == tabLoop(t0, 0)
        d1 == upLetter(t1.dec, 79, t1.dec[48])
        d2 == upLetter(d1, 73, d1[49])
        d3 == upLetter(d2, 76, d2[49])
    IN  [enc |-> t1.enc, dec |-> d3]

(***************************************************************************)
(* Length functions: encode.go, decode.go                                  *)
(***************************************************************************)
\* the expression without the rounding term
encodedLenExpressionFloor(n) ==
    WrapInt(WrapInt((n \div 5) * 8) + (((n % 5) * 8) \div 5))

encodedLenExpression(n) ==
    WrapInt(WrapInt((n \div 5) * 8) + (((n % 5) * 8 + 4) \div 5))

\* EncodedLength without the overflow guard
EncodedLengthUnguarded(n) ==
    IF n < 0 THEN -1 ELSE encodedLenExpression(n)

EncodedLength(n) ==
    IF n < 0 THEN -1
    ELSE LET result == encodedLenExpression(n)
         IN  IF result <= n /\ n # 0 THEN -1 ELSE result

\* the remainder mask with bit 3 set as well
validDecodeRemainder3 ==
    Or(Or(Or(Or(Or(Shl(1, 0), Shl(1, 2)), Shl(1, 3)), Shl(1, 4)), Shl(1, 5)), Shl(1, 7))

\* the remainder mask with bit 6 set in place of bit 7
validDecodeRemainder6 == Or(Or(Or(Or(Shl(1, 0), Shl(1, 2)), Shl(1, 4)), Shl(1, 5)), Shl(1, 6))

\* (1<<0)|(1<<2)|(1<<4)|(1<<5)|(1<<7)
validDecodeRemainder == Or(Or(Or(Or(Shl(1, 0), Shl(1, 2)), Shl(1, 4)), Shl(1, 5)), Shl(1, 7))

\* decodedLen that multiplies before it divides
decodedLenMulFirst(n) ==
    LET rem == n % 8
        prod == WrapInt(n * 5)
    IN  IF And(validDecodeRemainder, Shl(1, rem)) = 0
        THEN -1
        ELSE IF prod < 0 THEN -((-prod) \div 8) ELSE prod \div 8

\* decodedLen that rounds the bytes of the trailing group up
decodedLenCeil(n) ==
    LET rem == n % 8
    IN  IF And(validDecodeRemainder, Shl(1, rem)) = 0
        THEN -1
        ELSE WrapInt(WrapInt((n \div 8) * 5) + ((rem * 5 + 7) \div 8))

decodedLen(n) ==
    LET rem == n % 8
    IN  IF And(validDecodeRemainder, Shl(1, rem)) = 0
        THEN -1
        ELSE WrapInt(WrapInt((n \div 8) * 5) + ((rem * 5) \div 8))

\* the older switch-per-remainder form (base32.go)
b32DecodedLen(n) ==
    LET rem == n % 8
        decodedLen0 == WrapInt((n \div 8) * 5)
    IN  IF And(validDecodeRemainder, Shl(1, rem)) = 0
        THEN -1
        ELSE CASE rem = 2 -> WrapInt(decodedLen0 + 1)
               [] rem = 4 -> WrapInt(decodedLen0 + 2)
               [] rem = 5 -> WrapInt(decodedLen0 + 3)
               [] rem = 7 -> WrapInt(decodedLen0 + 4)
               [] OTHER   -> decodedLen0

(***************************************************************************)
(* Slices, errors, panics                                                  *)
(***************************************************************************)
NilSlice == [isNil |-> TRUE, elems |-> <<>>]

Slice(s) == [isNil |-> FALSE, elems |-> s]

\* make([]byte, n), and the zeroed memory slices.Grow appends
Zeros(n) == [i \in 1..n |-> 0]

ErrNil == "nil"
ErrInvalidBase32Length == "invalid base32 length"
ErrInvalidBase32Char == "invalid base32 character"

NoPanic == "none"
PanicEncodeSrcLen == "base32: invalid encode source length"
PanicEncodeDstShort == "base32: encode destination too short"
PanicDecodeSrcLen == "base32: invalid decode source length"
PanicDecodeDstShort == "base32: decode destination too short"

\* the outcome of a call that did not reach encode or decode: returned slice, returned
\* error, panic value
Outcome(r, e, p) == [ret |-> r, err |-> e, panic |-> p, engine |-> FALSE]

\* the outcome of a call that ran encode or decode to its end
EngineOutcome(r, e) == [ret |-> r, err |-> e, panic |-> NoPanic, engine |-> TRUE]

\* *(*byte)(unsafe.Add(ptr, k)) = bs[k + 1] for every k < Len(bs), ptr at offset d of mem
WriteAt(mem, d, bs) ==
    [i \in 1..Len(mem) |-> IF i > d /\ i <= d + Len(bs) THEN bs[i - d] ELSE mem[i]]

(***************************************************************************)
(* encode.go: the encoder                                                  *)
(***************************************************************************)
\* encodeGroup with the second byte shifted by 3 instead of 4 in the fourth symbol
encodeGroupShift3(b0, b1, b2, b3, b4) ==
    << encodeTab[Shr(b0, 3)],
       encodeTab[And(Or(Shl(b0, 2), Shr(b1, 6)), 31)],
       encodeTab[And(Shr(b1, 1), 31)],
       encodeTab[And(Or(Shl(b1, 3), Shr(b2, 4)), 31)],
       encodeTab[And(Or(Shl(b2, 1), Shr(b3, 7)), 31)],
       encodeTab[And(Shr(b3, 2), 31)],
       encodeTab[And(Or(Shl(b3, 3), Shr(b4, 5)), 31)],
       encodeTab[And(b4, 31)] >>

\* the eight symbols of a full group of five bytes
encodeGroup(b0, b1, b2, b3, b4) ==
    << encodeTab[Shr(b0, 3)],
       encodeTab[And(Or(Shl(b0, 2), Shr(b1, 6)), 31)],
       encodeTab[And(Shr(b1, 1), 31)],
       encodeTab[And(Or(Shl(b1, 4), Shr(b2, 4)), 31)],
       encodeTab[And(Or(Shl(b2, 1), Shr(b3, 7)), 31)],
       encodeTab[And(Shr(b3, 2), 31)],
       encodeTab[And(Or(Shl(b3, 3), Shr(b4, 5)), 31)],
       encodeTab[And(b4, 31)] >>

\* encodeTail with the second byte of a two byte tail shifted by 3 instead of 4
encodeTailShift3(r, t) ==
    CASE r = 1 ->
           << encodeTab[Shr(t[1], 3)],
              encodeTab[And(Shl(t[1], 2), 31)] >>
      [] r = 2 ->
           << encodeTab[Shr(t[1], 3)],
              encodeTab[And(Or(Shl(t[1], 2), Shr(t[2], 6)), 31)],
              encodeTab[And(Shr(t[2], 1), 31)],
              encodeTab[And(Shl(t[2], 3), 31)] >>
      [] r = 3 ->
           << encodeTab[Shr(t[1], 3)],
              encodeTab[And(Or(Shl(t[1], 2), Shr(t[2], 6)), 31)],
              encodeTab[And(Shr(t[2], 1), 31)],
              encodeTab[And(Or(Shl(t[2], 4), Shr(t[3], 4)), 31)],
              encodeTab[And(Shl(t[3], 1), 31)] >>
      [] r = 4 ->
           << encodeTab[Shr(t[1], 3)],
              encodeTab[And(Or(Shl(t[1], 2), Shr(t[2], 6)), 31)],
              encodeTab[And(Shr(t[2], 1), 31)],
              encodeTab[And(Or(Shl(t[2], 4), Shr(t[3], 4)), 31)],
              encodeTab[And(Or(Shl(t[3], 1), Shr(t[4], 7)), 31)],
              encodeTab[And(Shr(t[4], 2), 31)],
              encodeTab[And(Shl(t[4], 3), 31)] >>
      [] OTHER -> << >>

\* the symbols of the trailing group: switch n % 5, t the bytes from srcPtr on
encodeTail(r, t) ==
    CASE r = 1 ->
           << encodeTab[Shr(t[1], 3)],
              encodeTab[And(Shl(t[1], 2), 31)] >>
      [] r = 2 ->
           << encodeTab[Shr(t[1], 3)],
              encodeTab[And(Or(Shl(t[1], 2), Shr(t[2], 6)), 31)],
              encodeTab[And(Shr(t[2], 1), 31)],
              encodeTab[And(Shl(t[2], 4), 31)] >>
      [] r = 3 ->
           << encodeTab[Shr(t[1], 3)],
              encodeTab[And(Or(Shl(t[1], 2), Shr(t[2], 6)), 31)],
              encodeTab[And(Shr(t[2], 1), 31)],
              encodeTab[And(Or(Shl(t[2], 4), Shr(t[3], 4)), 31)],
              encodeTab[And(Shl(t[3], 1), 31)] >>
      [] r = 4 ->
           << encodeTab[Shr(t[1], 3)],
              encodeTab[And(Or(Shl(t[1], 2), Shr(t[2], 6)), 31)],
              encodeTab[And(Shr(t[2], 1), 31)],
              encodeTab[And(Or(Shl(t[2], 4), Shr(t[3], 4)), 31)],
              encodeTab[And(Or(Shl(t[3], 1), Shr(t[4], 7)), 31)],
              encodeTab[And(Shr(t[4], 2), 31)],
              encodeTab[And(Shl(t[4], 3), 31)] >>
      [] OTHER -> << >>

\* `for range n / 5`: k iterations left, dstPtr at offset d of mem, srcPtr at offset s of sv
RECURSIVE encodeLoop(_, _, _, _, _)
encodeLoop(mem, d, sv, s, k) ==
    IF k = 0 THEN [mem |-> mem, d |-> d, s |-> s]
    ELSE encodeLoop(WriteAt(mem, d, encodeGroup(sv[s + 1], sv[s + 2], sv[s + 3], sv[s + 4], sv[s + 5])),
                    d + 8, sv, s + 5, k - 1)

\* encode whose tail reads from the start of the source: srcPtr is not advanced
encodeSrcNotAdvanced(mem, d, sv, n) ==
    LET l == encodeLoop(mem, d, sv, 0, n \div 5)
    IN  WriteAt(l.mem, l.d, encodeTail(n % 5, SubSeq(sv, 1, n % 5)))

\* encode(dstPtr, srcPtr, n) with dstPtr = &mem[d] and srcPtr = &sv[0]; the memory after the call
encode(mem, d, sv, n) ==
    LET l == encodeLoop(mem, d, sv, 0, n \div 5)
    IN  WriteAt(l.mem, l.d, encodeTail(n % 5, SubSeq(sv, l.s + 1, n)))

\* encodedLen panics when the length cannot be encoded; -1 stands for the panic
encodedLen(n) ==
    LET result == encodedLenExpression(n)
    IN  IF result <= n THEN -1 ELSE result

\* UnsafeEncode that rejects a destination of exactly the required size
UnsafeEncodeOffByOne(d, sv) ==
    LET n == encodedLen(Len(sv))
    IN  IF n = -1 THEN Outcome(d, ErrNil, PanicEncodeSrcLen)
        ELSE IF Len(d.elems) <= n THEN Outcome(d, ErrNil, PanicEncodeDstShort)
        ELSE EngineOutcome(Slice(encode(d.elems, 0, sv, Len(sv))), ErrNil)

UnsafeEncode(d, sv) ==
    LET n == encodedLen(Len(sv))
    IN  IF n = -1 THEN Outcome(d, ErrNil, PanicEncodeSrcLen)
        ELSE IF Len(d.elems) < n THEN Outcome(d, ErrNil, PanicEncodeDstShort)
        ELSE EngineOutcome(Slice(encode(d.elems, 0, sv, Len(sv))), ErrNil)

Encode(sv) ==
    IF Len(sv) = 0 THEN Outcome(NilSlice, ErrNil, NoPanic)
    ELSE LET n == encodedLen(Len(sv))
         IN  IF n = -1 THEN Outcome(NilSlice, ErrNil, PanicEncodeSrcLen)
             ELSE EngineOutcome(Slice(encode(Zeros(n), 0, sv, Len(sv))), ErrNil)

\* the returned string is modelled as a non-nil byte sequence
EncodeString(sv) ==
    IF Len(sv) = 0 THEN Outcome(Slice(<< >>), ErrNil, NoPanic)
    ELSE LET n == encodedLen(Len(sv))
         IN  IF n = -1 THEN Outcome(NilSlice, ErrNil, PanicEncodeSrcLen)
             ELSE EngineOutcome(Slice(encode(Zeros(n), 0, sv, Len(sv))), ErrNil)

\* AppendEncode that encodes at the start of dst instead of at its old end
AppendEncodeAtStart(d, sv) ==
    IF Len(sv) = 0 THEN Outcome(d, ErrNil, NoPanic)
    ELSE LET n == encodedLen(Len(sv))
         IN  IF n = -1 THEN Outcome(d, ErrNil, PanicEncodeSrcLen)
             ELSE EngineOutcome(Slice(encode(d.elems \o Zeros(n), 0, sv, Len(sv))), ErrNil)

AppendEncode(d, sv) ==
    IF Len(sv) = 0 THEN Outcome(d, ErrNil, NoPanic)
    ELSE LET n == encodedLen(Len(sv))
             orig == Len(d.elems)
         IN  IF n = -1 THEN Outcome(d, ErrNil, PanicEncodeSrcLen)
             ELSE EngineOutcome(Slice(encode(d.elems \o Zeros(n), orig, sv, Len(sv))), ErrNil)

AppendEncodeString(d, sv) ==
    IF Len(sv) = 0 THEN Outcome(d, ErrNil, NoPanic)
    ELSE LET n == encodedLen(Len(sv))
             orig == Len(d.elems)
         IN  IF n = -1 THEN Outcome(d, ErrNil, PanicEncodeSrcLen)
             ELSE EngineOutcome(Slice(encode(d.elems \o Zeros(n), orig, sv, Len(sv))), ErrNil)

(***************************************************************************)
(* decode.go: the decoder                                                  *)
(***************************************************************************)
\* decodeGroup with the fifth value shifted right by 2 instead of 1 in the third byte
decodeGroupShr2(c0, c1, c2, c3, c4, c5, c6, c7) ==
    << Or(Shl(c0, 3), Shr(c1, 2)),
       Or(Or(Shl(And(c1, 3), 6), Shl(c2, 1)), Shr(c3, 4)),
       Or(Shl(And(c3, 15), 4), Shr(c4, 2)),
       Or(Or(Shl(And(c4, 1), 7), Shl(c5, 2)), Shr(c6, 3)),
       Or(Shl(And(c6, 7), 5), c7) >>

\* the five bytes of a full group of eight looked-up values
decodeGroup(c0, c1, c2, c3, c4, c5, c6, c7) ==
    << Or(Shl(c0, 3), Shr(c1, 2)),
       Or(Or(Shl(And(c1, 3), 6), Shl(c2, 1)), Shr(c3, 4)),
       Or(Shl(And(c3, 15), 4), Shr(c4, 1)),
       Or(Or(Shl(And(c4, 1), 7), Shl(c5, 2)), Shr(c6, 3)),
       Or(Shl(And(c6, 7), 5), c7) >>

\* the looked-up values combined with & instead of |
RECURSIVE AndAll(_)
AndAll(cs) == IF Len(cs) = 0 THEN 255 ELSE And(Head(cs), AndAll(Tail(cs)))

\* c0 | c1 | ... over the looked-up values cs
RECURSIVE OrAll(_)
OrAll(cs) == IF Len(cs) = 0 THEN 0 ELSE Or(Head(cs), OrAll(Tail(cs)))

\* tailRejected without the test of the unused low bits of the last value
tailRejectedCharsOnly(r, c) ==
    CASE r = 2 -> OrAll(c) = b32Invalid
      [] r = 4 -> OrAll(c) = b32Invalid
      [] r = 5 -> OrAll(c) = b32Invalid
      [] r = 7 -> OrAll(c) = b32Invalid
      [] OTHER -> FALSE

\* tailRejected that tests two low bits for remainder 5, where one is unused
tailRejectedStrict(r, c) ==
    CASE r = 2 -> OrAll(c) = b32Invalid \/ And(c[2], 3) # 0
      [] r = 4 -> OrAll(c) = b32Invalid \/ And(c[4], 15) # 0
      [] r = 5 -> OrAll(c) = b32Invalid \/ And(c[5], 3) # 0
      [] r = 7 -> OrAll(c) = b32Invalid \/ And(c[7], 7) # 0
      [] OTHER -> FALSE

\* tailRejected with the masks of remainders 4 and 7 exchanged
tailRejectedMasks(r, c) ==
    CASE r = 2 -> OrAll(c) = b32Invalid \/ And(c[2], 3) # 0
      [] r = 4 -> OrAll(c) = b32Invalid \/ And(c[4], 7) # 0
      [] r = 5 -> OrAll(c) = b32Invalid \/ And(c[5], 1) # 0
      [] r = 7 -> OrAll(c) = b32Invalid \/ And(c[7], 15) # 0
      [] OTHER -> FALSE

\* the condition under which the trailing group of r symbols is rejected
tailRejected(r, c) ==
    CASE r = 2 -> OrAll(c) = b32Invalid \/ And(c[2], 3) # 0
      [] r = 4 -> OrAll(c) = b32Invalid \/ And(c[4], 15) # 0
      [] r = 5 -> OrAll(c) = b32Invalid \/ And(c[5], 1) # 0
      [] r = 7 -> OrAll(c) = b32Invalid \/ And(c[7], 7) # 0
      [] OTHER -> FALSE

\* the bytes written for an accepted trailing group of r symbols
tailBytes(r, c) ==
    CASE r = 2 ->
           << Or(Shl(c[1], 3), Shr(c[2], 2)) >>
      [] r = 4 ->
           << Or(Shl(c[1], 3), Shr(c[2], 2)),
              Or(Or(Shl(And(c[2], 3), 6), Shl(c[3], 1)), Shr(c[4], 4)) >>
      [] r = 5 ->
           << Or(Shl(c[1], 3), Shr(c[2], 2)),
              Or(Or(Shl(And(c[2], 3), 6), Shl(c[3], 1)), Shr(c[4], 4)),
              Or(Shl(And(c[4], 15), 4), Shr(c[5], 1)) >>
      [] r = 7 ->
           << Or(Shl(c[1], 3), Shr(c[2], 2)),
              Or(Or(Shl(And(c[2], 3), 6), Shl(c[3], 1)), Shr(c[4], 4)),
              Or(Shl(And(c[4], 15), 4), Shr(c[5], 1)),
              Or(Or(Shl(And(c[5], 1), 7), Shl(c[6], 2)), Shr(c[7], 3)) >>
      [] OTHER -> << >>

\* decodeTab[*(*byte)(unsafe.Add(srcPtr, k))] for k < cnt, srcPtr at offset s of sv
lookup(sv, s, cnt) == [k \in 1..cnt |-> decodeTab[sv[s + k]]]

\* `for range n / 8`: k iterations left, dstPtr at offset d of mem, srcPtr at offset s of sv
RECURSIVE decodeLoop(_, _, _, _, _)
decodeLoop(mem, d, sv, s, k) ==
    IF k = 0 THEN [mem |-> mem, d |-> d, s |-> s, err |-> ErrNil]
    ELSE LET c == lookup(sv, s, 8)
         IN  IF OrAll(c) = b32Invalid
             THEN [mem |-> mem, d |-> d, s |-> s, err |-> ErrInvalidBase32Char]
             ELSE decodeLoop(WriteAt(mem, d, decodeGroup(c[1], c[2], c[3], c[4], c[5], c[6], c[7], c[8])),
                             d + 5, sv, s + 8, k - 1)

\* decode(dst, src) with dst = mem[d:]; the memory after the call and the error
decode(mem, d, sv) ==
    LET n == Len(sv)
        l == decodeLoop(mem, d, sv, 0, n \div 8)
        c == lookup(sv, l.s, n % 8)
    IN  IF l.err # ErrNil THEN [mem |-> l.mem, err |-> l.err]
        ELSE IF tailRejected(n % 8, c) THEN [mem |-> l.mem, err |-> ErrInvalidBase32Char]
        ELSE [mem |-> WriteAt(l.mem, l.d, tailBytes(n % 8, c)), err |-> ErrNil]

\* UnsafeDecode that tests the destination before the source length
UnsafeDecodeDstFirst(d, sv) ==
    LET n == decodedLen(Len(sv))
    IN  IF Len(d.elems) = 0 \/ Len(d.elems) < n THEN Outcome(d, ErrNil, PanicDecodeDstShort)
        ELSE IF n <= 0 THEN Outcome(d, ErrNil, PanicDecodeSrcLen)
        ELSE LET r == decode(d.elems, 0, sv)
             IN  EngineOutcome(Slice(r.mem), r.err)

\* UnsafeDecode that lets a source of decoded length zero through
UnsafeDecodeZeroOk(d, sv) ==
    LET n == decodedLen(Len(sv))
    IN  IF n < 0 THEN Outcome(d, ErrNil, PanicDecodeSrcLen)
        ELSE IF Len(d.elems) < n THEN Outcome(d, ErrNil, PanicDecodeDstShort)
        ELSE LET r == decode(d.elems, 0, sv)
             IN  EngineOutcome(Slice(r.mem), r.err)

UnsafeDecode(d, sv) ==
    LET n == decodedLen(Len(sv))
    IN  IF n <= 0 THEN Outcome(d, ErrNil, PanicDecodeSrcLen)
        ELSE IF Len(d.elems) < n THEN Outcome(d, ErrNil, PanicDecodeDstShort)
        ELSE LET r == decode(d.elems, 0, sv)
             IN  EngineOutcome(Slice(r.mem), r.err)

\* Decode that looks for bytes outside the alphabet before it tests the length
DecodeCharsFirst(sv) ==
    IF Len(sv) = 0 THEN Outcome(NilSlice, ErrNil, NoPanic)
    ELSE IF OrAll(lookup(sv, 0, Len(sv))) = b32Invalid
    THEN Outcome(NilSlice, ErrInvalidBase32Char, NoPanic)
    ELSE LET n == decodedLen(Len(sv))
         IN  IF n < 0 THEN Outcome(NilSlice, ErrInvalidBase32Length, NoPanic)
             ELSE LET r == decode(Zeros(n), 0, sv)
                  IN  EngineOutcome(Slice(r.mem), r.err)

Decode(sv) ==
    IF Len(sv) = 0 THEN Outcome(NilSlice, ErrNil, NoPanic)
    ELSE LET n == decodedLen(Len(sv))
         IN  IF n < 0 THEN Outcome(NilSlice, ErrInvalidBase32Length, NoPanic)
             ELSE LET r == decode(Zeros(n), 0, sv)
                  IN  EngineOutcome(Slice(r.mem), r.err)

\* AppendDecode that hands dst back when the length is invalid
AppendDecodeKeepsDst(d, sv) ==
    IF Len(sv) = 0 THEN Outcome(d, ErrNil, NoPanic)
    ELSE LET n == decodedLen(Len(sv))
             orig == Len(d.elems)
         IN  IF n < 0 THEN Outcome(d, ErrInvalidBase32Length, NoPanic)
             ELSE LET r == decode(d.elems \o Zeros(n), orig, sv)
                  IN  EngineOutcome(Slice(r.mem), r.err)

\* AppendDecode without the early return for an empty source
AppendDecodeNoFastPath(d, sv) ==
    LET n == decodedLen(Len(sv))
        orig == Len(d.elems)
    IN  IF n < 0 THEN Outcome(NilSlice, ErrInvalidBase32Length, NoPanic)
        ELSE LET r == decode(d.elems \o Zeros(n), orig, sv)
             IN  EngineOutcome(Slice(r.mem), r.err)

AppendDecode(d, sv) ==
    IF Len(sv) = 0 THEN Outcome(d, ErrNil, NoPanic)
    ELSE LET n == decodedLen(Len(sv))
             orig == Len(d.elems)
         IN  IF n < 0 THEN Outcome(NilSlice, ErrInvalidBase32Length, NoPanic)
             ELSE LET r == decode(d.elems \o Zeros(n), orig, sv)
                  IN  EngineOutcome(Slice(r.mem), r.err)

(***************************************************************************)
(* Arguments of the calls                                                  *)
(***************************************************************************)
\* all sequences over S of length at most n
BSeq(S, n) == UNION {[1..k -> S] : k \in 0..n}

\* "1234567890123456789", the source of the reference vectors
RefSrc == << 49, 50, 51, 52, 53, 54, 55, 56, 57, 48, 49, 50, 51, 52, 53, 54, 55, 56, 57 >>

\* "64S36D1N6RVKGE9G64S36D1N6RVKGE8", its encoding
RefEnc ==
    << 54, 52, 83, 51, 54, 68, 49, 78, 54, 82, 86, 75, 71, 69, 57, 71,
       54, 52, 83, 51, 54, 68, 49, 78, 54, 82, 86, 75, 71, 69, 56 >>

\* the encodings TestEncode expects of the first k bytes of RefSrc, by k
RefVectors ==
    [k \in {5, 15, 16, 17, 18, 19} |->
        CASE k = 5 ->   \* "64S36D1N"
               << 54, 52, 83, 51, 54, 68, 49, 78 >>
          [] k = 15 ->   \* "64S36D1N6RVKGE9G64S36D1N"
               << 54, 52, 83, 51, 54, 68, 49, 78, 54, 82, 86, 75, 71, 69, 57, 71,
                  54, 52, 83, 51, 54, 68, 49, 78 >>
          [] k = 16 ->   \* "64S36D1N6RVKGE9G64S36D1N6R"
               << 54, 52, 83, 51, 54, 68, 49, 78, 54, 82, 86, 75, 71, 69, 57, 71,
                  54, 52, 83, 51, 54, 68, 49, 78, 54, 82 >>
          [] k = 17 ->   \* "64S36D1N6RVKGE9G64S36D1N6RVG"
               << 54, 52, 83, 51, 54, 68, 49, 78, 54, 82, 86, 75, 71, 69, 57, 71,
                  54, 52, 83, 51, 54, 68, 49, 78, 54, 82, 86, 71 >>
          [] k = 18 ->   \* "64S36D1N6RVKGE9G64S36D1N6RVKG"
               << 54, 52, 83, 51, 54, 68, 49, 78, 54, 82, 86, 75, 71, 69, 57, 71,
                  54, 52, 83, 51, 54, 68, 49, 78, 54, 82, 86, 75, 71 >>
          [] k = 19 ->   \* "64S36D1N6RVKGE9G64S36D1N6RVKGE8"
               << 54, 52, 83, 51, 54, 68, 49, 78, 54, 82, 86, 75, 71, 69, 57, 71,
                  54, 52, 83, 51, 54, 68, 49, 78, 54, 82, 86, 75, 71, 69, 56 >>]

\* byte values of the freely chosen part of an encode source
SrcBytes == {0, 255, 165}

\* sources handed to the encoders: a whole number of reference groups, then free bytes
EncodeSources ==
    {SubSeq(RefSrc, 1, 5 * g) \o t : g \in 0..MaxSrcGroups, t \in BSeq(SrcBytes, MaxSrcTail)}
    \cup {SubSeq(RefSrc, 1, k) : k \in DOMAIN RefVectors}

\* digits, letters of both cases, and bytes around and far from them
Symbols == (48..57) \cup (65..90) \cup (97..122) \cup {0, 32, 47, 58, 61, 64, 91, 96, 123, 255}

\* '0' 'o' 'l' 'g' 'U'
SmallSyms == {48, 111, 108, 103, 85}

\* sources handed to the decoders: prefixes of the reference encoding with at most one
\* symbol replaced, and zero or one reference group followed by free symbols
DecodeSources ==
    {SubSeq(RefEnc, 1, k) : k \in 0..MaxRefLen}
    \cup {[SubSeq(RefEnc, 1, k) EXCEPT ![p] = c] : k \in 1..MaxRefLen, p \in 1..MaxRefLen, c \in Symbols}
    \cup {SubSeq(RefEnc, 1, 8 * g) \o t : g \in 0..1, t \in BSeq(SmallSyms, MaxSymTail)}
    \cup {RefVectors[k] : k \in DOMAIN RefVectors}

\* "t_"
DstPrefix == << 116, 95 >>

\* destinations handed to the Append* calls
AppendDsts == {NilSlice, Slice(DstPrefix)}

\* destinations handed to the Unsafe* calls when need bytes are required
UnsafeDsts(need) ==
    {NilSlice} \cup {Slice([i \in 1..k |-> 170]) : k \in {need - 1, need, need + 1} \cap Nat}

(***************************************************************************)
(* The state machine: every action is one complete call                    *)
(***************************************************************************)
Init ==
    /\ encodeTab = initTables.enc
    /\ decodeTab = initTables.dec
    /\ op = "none"
    /\ src = << >>
    /\ dst = NilSlice
    /\ ret = NilSlice
    /\ err = ErrNil
    /\ panicMsg = NoPanic
    /\ engine = FALSE
    /\ lenArg = 0
    /\ lenRet = 0
    /\ heap = << >>
    /\ calls = << >>

\* the caller is done with the outcome of the last call and is free to make the next one
Release ==
    /\ op # "none"
    /\ op' = "none"
    /\ src' = << >>
    /\ dst' = NilSlice
    /\ ret' = NilSlice
    /\ err' = ErrNil
    /\ panicMsg' = NoPanic
    /\ engine' = FALSE
    /\ lenArg' = 0
    /\ lenRet' = 0
    /\ UNCHANGED <<encodeTab, decodeTab, heap, calls>>

\* Returned for a decoder that records a rejected source in decodeTab
ReturnedMarksTable(name, d, s, o) ==
    /\ op' = name
    /\ dst' = d
    /\ src' = s
    /\ ret' = o.ret
    /\ err' = o.err
    /\ panicMsg' = o.panic
    /\ engine' = o.engine
    /\ decodeTab' = IF o.err = ErrInvalidBase32Char
                    THEN [decodeTab EXCEPT ![s[Len(s)]] = b32Invalid]
                    ELSE decodeTab
    /\ UNCHANGED <<encodeTab, lenArg, lenRet, heap, calls>>

\* the caller, idle, makes the call `name` with arguments d, s; it completes with outcome o
Returned(name, d, s, o) ==
    /\ op' = name
    /\ dst' = d
    /\ src' = s
    /\ ret' = o.ret
    /\ err' = o.err
    /\ panicMsg' = o.panic
    /\ engine' = o.engine
    /\ UNCHANGED <<encodeTab, decodeTab, lenArg, lenRet, heap, calls>>

CallEncode ==
    /\ op = "none"
    /\ \E s \in EncodeSources : Returned("Encode", NilSlice, s, Encode(s))

CallEncodeString ==
    /\ op = "none"
    /\ \E s \in EncodeSources : Returned("EncodeString", NilSlice, s, EncodeString(s))

CallAppendEncode ==
    /\ op = "none"
    /\ \E s \in EncodeSources, d \in AppendDsts : Returned("AppendEncode", d, s, AppendEncode(d, s))

CallAppendEncodeString ==
    /\ op = "none"
    /\ \E s \in EncodeSources, d \in AppendDsts :
           Returned("AppendEncodeString", d, s, AppendEncodeString(d, s))

CallUnsafeEncode ==
    /\ op = "none"
    /\ \E s \in EncodeSources : \E d \in UnsafeDsts(EncodedLength(Len(s))) :
           Returned("UnsafeEncode", d, s, UnsafeEncode(d, s))

CallDecode ==
    /\ op = "none"
    /\ \E s \in DecodeSources : Returned("Decode", NilSlice, s, Decode(s))

CallAppendDecode ==
    /\ op = "none"
    /\ \E s \in DecodeSources, d \in AppendDsts : Returned("AppendDecode", d, s, AppendDecode(d, s))

CallUnsafeDecode ==
    /\ op = "none"
    /\ \E s \in DecodeSources : \E d \in UnsafeDsts(decodedLen(Len(s))) :
           Returned("UnsafeDecode", d, s, UnsafeDecode(d, s))

Next ==
    \/ CallEncode
    \/ CallEncodeString
    \/ CallAppendEncode
    \/ CallAppendEncodeString
    \/ CallUnsafeEncode
    \/ CallDecode
    \/ CallAppendDecode
    \/ CallUnsafeDecode
    \/ Release

Spec == Init /\ [][Next]_vars

\* the call `name` of a length function with argument n has returned r
LenReturned(name, n, r) ==
    /\ op' = name
    /\ lenArg' = n
    /\ lenRet' = r
    /\ UNCHANGED <<encodeTab, decodeTab, src, dst, ret, err, panicMsg, engine, heap, calls>>

CallEncodedLength ==
    /\ op = "none"
    /\ \E n \in MinInt..MaxInt : LenReturned("EncodedLength", n, EncodedLength(n))

\* decodedLen requires n >= 0
CalldecodedLen ==
    /\ op = "none"
    /\ \E n \in 0..MaxInt : LenReturned("decodedLen", n, decodedLen(n))

Callb32DecodedLen ==
    /\ op = "none"
    /\ \E n \in 0..MaxInt : LenReturned("b32DecodedLen", n, b32DecodedLen(n))

NextLen ==
    \/ CallEncodedLength
    \/ CalldecodedLen
    \/ Callb32DecodedLen
    \/ Release

SpecLen == Init /\ [][NextLen]_vars

\* every sequence of calls of the codec and of the length functions
NextAll ==
    \/ Next
    \/ NextLen

SpecAll == Init /\ [][NextAll]_vars

(***************************************************************************)
(* Concurrent calls of encode and decode on one memory, where every step   *)
(* is one byte read or one byte write of one call                          *)
(***************************************************************************)
\* the byte a destination holds before the call writes it
Unwritten == 170

\* the calls a goroutine makes: the engine, the source and the bytes the destination
\* has beyond the required length; the last two sources have a 'U', one in the
\* trailing group and one in a full group that other symbols follow
ConcJobs ==
    { [kind |-> "encode", src |-> SubSeq(RefSrc, 1, 6), extra |-> 1],
      [kind |-> "encode", src |-> <<255, 165>>, extra |-> 0],
      [kind |-> "decode", src |-> SubSeq(RefEnc, 1, 10), extra |-> 2],
      [kind |-> "decode", src |-> SubSeq(RefEnc, 1, 8) \o <<54, 85>>, extra |-> 0],
      [kind |-> "decode", src |-> [SubSeq(RefEnc, 1, 10) EXCEPT ![7] = 85], extra |-> 0] }

\* the destination length the guard of UnsafeEncode, UnsafeDecode requires for n source units
RequiredLen(kind, n) == IF kind = "encode" THEN encodedLen(n) ELSE decodedLen(n)

\* the length of the destination the caller allocates for job j
DstLen(j) == RequiredLen(j.kind, Len(j.src)) + j.extra

\* the memory of the first i jobs of js: each source followed by its destination
RECURSIVE HeapOf(_, _)
HeapOf(js, i) ==
    IF i = 0 THEN << >>
    ELSE HeapOf(js, i - 1) \o js[i].src \o [x \in 1..DstLen(js[i]) |-> Unwritten]

\* source units read per full group: 5 bytes in encode, 8 symbols in decode
GroupIn(c) == IF c.kind = "encode" THEN 5 ELSE 8

\* the number of reads of the group the call is in: a full group, or n % 5, n % 8 in the tail
Need(c) == IF c.tail THEN c.n % GroupIn(c) ELSE GroupIn(c)

\* the loop head and the switch after it: k iterations left, srcPtr and dstPtr at s and d
NextGroup(c, k, s, d) ==
    LET at == [c EXCEPT !.k = k, !.s = s, !.d = d, !.regs = << >>, !.w = 0]
    IN  IF k > 0 THEN [at EXCEPT !.pc = "read", !.tail = FALSE]
        ELSE IF c.n % GroupIn(c) # 0 THEN [at EXCEPT !.pc = "read", !.tail = TRUE]
        ELSE [at EXCEPT !.pc = "done"]

\* StartCall with the number of loop iterations rounded up: (n + 4) / 5, (n + 7) / 8
StartCallRoundsUp(j, base) ==
    LET c == [kind |-> j.kind, src0 |-> j.src, n |-> Len(j.src), srcAt |-> base,
              dstAt |-> base + Len(j.src), dlen |-> DstLen(j), pc |-> "read", tail |-> FALSE,
              k |-> 0, s |-> 0, d |-> 0, regs |-> << >>, w |-> 0, err |-> ErrNil]
    IN  NextGroup(c, (c.n + GroupIn(c) - 1) \div GroupIn(c), 0, 0)

\* the call of job j whose source starts at offset base of the memory, at its first step
StartCall(j, base) ==
    LET c == [kind |-> j.kind, src0 |-> j.src, n |-> Len(j.src), srcAt |-> base,
              dstAt |-> base + Len(j.src), dlen |-> DstLen(j), pc |-> "read", tail |-> FALSE,
              k |-> 0, s |-> 0, d |-> 0, regs |-> << >>, w |-> 0, err |-> ErrNil]
    IN  NextGroup(c, c.n \div GroupIn(c), 0, 0)

\* unsafe.Add(srcPtr, j) as an index of the memory
SrcAddr(c, j) == c.srcAt + c.s + j + 1

\* unsafe.Add(dstPtr, j) computed from the start of the memory instead of the call's destination
DstAddrNoBase(c, j) == c.d + j + 1

\* unsafe.Add(dstPtr, j) as an index of the memory
DstAddr(c, j) == c.dstAt + c.d + j + 1

InitConc ==
    /\ encodeTab = initTables.enc
    /\ decodeTab = initTables.dec
    /\ op = "none"
    /\ src = << >>
    /\ dst = NilSlice
    /\ ret = NilSlice
    /\ err = ErrNil
    /\ panicMsg = NoPanic
    /\ engine = FALSE
    /\ lenArg = 0
    /\ lenRet = 0
    /\ \E js \in [1..NumCalls -> ConcJobs] :
          /\ heap = HeapOf(js, NumCalls)
          /\ calls = [i \in 1..NumCalls |-> StartCall(js[i], Len(HeapOf(js, i - 1)))]

\* b_j := *(*byte)(unsafe.Add(srcPtr, j)) of call i
EncodeRead(i) ==
    LET c == calls[i]
        regs == Append(c.regs, heap[SrcAddr(c, Len(c.regs))])
    IN  /\ c.kind = "encode"
        /\ c.pc = "read"
        /\ calls' = [calls EXCEPT ![i] =
                        [c EXCEPT !.regs = regs,
                                  !.pc = IF Len(regs) = Need(c) THEN "write" ELSE "read"]]
        /\ UNCHANGED <<encodeTab, decodeTab, op, src, dst, ret, err, panicMsg, engine,
                       lenArg, lenRet, heap>>

\* EncodeWrite that pads the symbols of a trailing group with '=' to eight
EncodeWritePadded(i) ==
    LET c == calls[i]
        tl == encodeTail(Need(c), c.regs)
        syms == IF c.tail THEN tl \o [x \in 1..(8 - Len(tl)) |-> 61]
                ELSE encodeGroup(c.regs[1], c.regs[2], c.regs[3], c.regs[4], c.regs[5])
    IN  /\ c.kind = "encode"
        /\ c.pc = "write"
        /\ heap' = [heap EXCEPT ![DstAddr(c, c.w)] = syms[c.w + 1]]
        /\ calls' = [calls EXCEPT ![i] =
                        IF c.w + 1 < Len(syms) THEN [c EXCEPT !.w = c.w + 1]
                        ELSE IF c.tail THEN [c EXCEPT !.w = c.w + 1, !.pc = "done"]
                        ELSE NextGroup(c, c.k - 1, c.s + 5, c.d + 8)]
        /\ UNCHANGED <<encodeTab, decodeTab, op, src, dst, ret, err, panicMsg, engine,
                       lenArg, lenRet>>

\* *(*byte)(unsafe.Add(dstPtr, w)) = encodeTab[...] of call i, and the pointer
\* advance after the eighth write of a full group
EncodeWrite(i) ==
    LET c == calls[i]
        syms == IF c.tail THEN encodeTail(Need(c), c.regs)
                ELSE encodeGroup(c.regs[1], c.regs[2], c.regs[3], c.regs[4], c.regs[5])
    IN  /\ c.kind = "encode"
        /\ c.pc = "write"
        /\ heap' = [heap EXCEPT ![DstAddr(c, c.w)] = syms[c.w + 1]]
        /\ calls' = [calls EXCEPT ![i] =
                        IF c.w + 1 < Len(syms) THEN [c EXCEPT !.w = c.w + 1]
                        ELSE IF c.tail THEN [c EXCEPT !.w = c.w + 1, !.pc = "done"]
                        ELSE NextGroup(c, c.k - 1, c.s + 5, c.d + 8)]
        /\ UNCHANGED <<encodeTab, decodeTab, op, src, dst, ret, err, panicMsg, engine,
                       lenArg, lenRet>>

\* DecodeRead that clears the destination when it rejects a group
DecodeReadClearsDst(i) ==
    LET c == calls[i]
        regs == Append(c.regs, decodeTab[heap[SrcAddr(c, Len(c.regs))]])
        rejected == IF c.tail THEN tailRejected(Need(c), regs) ELSE OrAll(regs) = b32Invalid
    IN  /\ c.kind = "decode"
        /\ c.pc = "read"
        /\ calls' = [calls EXCEPT ![i] =
                        IF Len(regs) < Need(c) THEN [c EXCEPT !.regs = regs]
                        ELSE IF rejected
                             THEN [c EXCEPT !.regs = regs, !.pc = "done",
                                            !.err = ErrInvalidBase32Char]
                        ELSE [c EXCEPT !.regs = regs, !.pc = "write"]]
        /\ heap' = IF Len(regs) = Need(c) /\ rejected
                   THEN [x \in 1..Len(heap) |->
                            IF x > c.dstAt /\ x <= c.dstAt + c.dlen THEN 0 ELSE heap[x]]
                   ELSE heap
        /\ UNCHANGED <<encodeTab, decodeTab, op, src, dst, ret, err, panicMsg, engine,
                       lenArg, lenRet>>

\* c_j := decodeTab[*(*byte)(unsafe.Add(srcPtr, j))] of call i, and after the last
\* read of the group the test that rejects it
DecodeRead(i) ==
    LET c == calls[i]
        regs == Append(c.regs, decodeTab[heap[SrcAddr(c, Len(c.regs))]])
        rejected == IF c.tail THEN tailRejected(Need(c), regs) ELSE OrAll(regs) = b32Invalid
    IN  /\ c.kind = "decode"
        /\ c.pc = "read"
        /\ calls' = [calls EXCEPT ![i] =
                        IF Len(regs) < Need(c) THEN [c EXCEPT !.regs = regs]
                        ELSE IF rejected
                             THEN [c EXCEPT !.regs = regs, !.pc = "done",
                                            !.err = ErrInvalidBase32Char]
                        ELSE [c EXCEPT !.regs = regs, !.pc = "write"]]
        /\ UNCHANGED <<encodeTab, decodeTab, op, src, dst, ret, err, panicMsg, engine,
                       lenArg, lenRet, heap>>

\* *(*byte)(unsafe.Add(dstPtr, w)) = ... of call i, and the pointer advance after
\* the fifth write of a full group
DecodeWrite(i) ==
    LET c == calls[i]
        r == c.regs
        bytes == IF c.tail THEN tailBytes(Need(c), r)
                 ELSE decodeGroup(r[1], r[2], r[3], r[4], r[5], r[6], r[7], r[8])
    IN  /\ c.kind = "decode"
        /\ c.pc = "write"
        /\ heap' = [heap EXCEPT ![DstAddr(c, c.w)] = bytes[c.w + 1]]
        /\ calls' = [calls EXCEPT ![i] =
                        IF c.w + 1 < Len(bytes) THEN [c EXCEPT !.w = c.w + 1]
                        ELSE IF c.tail THEN [c EXCEPT !.w = c.w + 1, !.pc = "done"]
                        ELSE NextGroup(c, c.k - 1, c.s + 8, c.d + 5)]
        /\ UNCHANGED <<encodeTab, decodeTab, op, src, dst, ret, err, panicMsg, engine,
                       lenArg, lenRet>>

NextConc ==
    \/ \E i \in DOMAIN calls : EncodeRead(i)
    \/ \E i \in DOMAIN calls : EncodeWrite(i)
    \/ \E i \in DOMAIN calls : DecodeRead(i)
    \/ \E i \in DOMAIN calls : DecodeWrite(i)

SpecConc == InitConc /\ [][NextConc]_vars

\* one call at a time, for every source length of the reference vectors: the first n
\* bytes of the reference source are encoded into a destination of exactly the
\* required length, the first m symbols of its encoding are decoded, m of valid length
StepJobs ==
    {[kind |-> "encode", src |-> SubSeq(RefSrc, 1, n), extra |-> 0] : n \in 1..Len(RefSrc)}
    \cup {[kind |-> "decode", src |-> SubSeq(RefEnc, 1, m), extra |-> 0] :
              m \in {x \in 1..Len(RefEnc) : decodedLen(x) > 0}}

InitStep ==
    /\ encodeTab = initTables.enc
    /\ decodeTab = initTables.dec
    /\ op = "none"
    /\ src = << >>
    /\ dst = NilSlice
    /\ ret = NilSlice
    /\ err = ErrNil
    /\ panicMsg = NoPanic
    /\ engine = FALSE
    /\ lenArg = 0
    /\ lenRet = 0
    /\ \E j \in StepJobs :
          /\ heap = HeapOf(<<j>>, 1)
          /\ calls = <<StartCall(j, 0)>>

SpecStep == InitStep /\ [][NextConc]_vars

(***************************************************************************)
(* Properties                                                              *)
(***************************************************************************)
DecodeOps == {"Decode", "AppendDecode", "UnsafeDecode"}

\* the 5 bit value of symbol c, or b32Invalid
ValueOf(c) == decodeTab[c]

\* every symbol of s is an accepted alphabet member
AllAccepted(s) == \A i \in 1..Len(s) : ValueOf(s[i]) # b32Invalid

\* number of low bits of the last value that carry no data, by remainder of the length mod 8
UnusedBits(r) == CASE r = 2 -> 2 [] r = 4 -> 4 [] r = 5 -> 1 [] r = 7 -> 3 [] OTHER -> 0

\* C1: decoding what Encode returned for src gives a nil error and src back,
\* the empty sequence for an empty src.
RoundTrip ==
    op = "Encode" =>
        /\ panicMsg = NoPanic
        /\ LET d == Decode(ret.elems)
           IN  d.panic = NoPanic /\ d.err = ErrNil /\ d.ret.elems = src

\* a source of two full groups and a three byte tail has been encoded and decodes to itself
RoundTripWitness ==
    /\ op = "Encode"
    /\ Len(src) = 13
    /\ Len(ret.elems) = 21
    /\ Decode(ret.elems).ret.elems = src

\* C2: a source of remainder 2, 4, 5 or 7 whose symbols are all accepted and whose
\* last value has a non-zero bit among its unused low bits is rejected with
\* ErrInvalidBase32Char.
TailBitCanonicality ==
    ( /\ op \in DecodeOps
      /\ panicMsg = NoPanic
      /\ Len(src) % 8 \in {2, 4, 5, 7}
      /\ AllAccepted(src)
      /\ ValueOf(src[Len(src)]) % 2^UnusedBits(Len(src) % 8) # 0 )
    => err = ErrInvalidBase32Char

\* a 13 symbol source of accepted symbols with a set low bit in its last value is rejected
TailBitWitness ==
    /\ op = "Decode"
    /\ Len(src) = 13
    /\ AllAccepted(src)
    /\ ValueOf(src[13]) % 2 = 1
    /\ err = ErrInvalidBase32Char

\* the groups of s: pairs <<offset, size>> of the full groups and the trailing group
GroupsOf(s) ==
    {<<8 * g, 8>> : g \in 0..((Len(s) \div 8) - 1)}
    \cup (IF Len(s) % 8 = 0 THEN {} ELSE {<<8 * (Len(s) \div 8), Len(s) % 8>>})

\* C3: a source of valid length with a byte that maps to the sentinel, in a full group
\* or in the trailing group, makes Decode, AppendDecode and UnsafeDecode return
\* ErrInvalidBase32Char; the OR of a group's looked-up values is the sentinel exactly
\* when one of them is.
InvalidCharRejected ==
    (op \in DecodeOps /\ panicMsg = NoPanic /\ Len(src) % 8 \in {0, 2, 4, 5, 7}) =>
        /\ (~AllAccepted(src)) => err = ErrInvalidBase32Char
        /\ \A g \in GroupsOf(src) :
              LET c == lookup(src, g[1], g[2])
              IN  (OrAll(c) = b32Invalid) <=> (\E k \in 1..g[2] : c[k] = b32Invalid)

\* UnsafeDecode returned the error for a 12 symbol source whose only bad byte is in the full group
InvalidCharWitness ==
    /\ op = "UnsafeDecode"
    /\ panicMsg = NoPanic
    /\ Len(src) = 12
    /\ ValueOf(src[3]) = b32Invalid
    /\ \A i \in 1..12 : i # 3 => ValueOf(src[i]) # b32Invalid
    /\ err = ErrInvalidBase32Char

\* C4: Decode and AppendDecode of a non-empty source of length 1, 3 or 6 mod 8 return
\* ErrInvalidBase32Length, without panicking, whatever the bytes are.
InvalidLengthRejected ==
    (op \in {"Decode", "AppendDecode"} /\ Len(src) > 0 /\ Len(src) % 8 \in {1, 3, 6}) =>
        err = ErrInvalidBase32Length /\ panicMsg = NoPanic

\* AppendDecode returned the length error for an 11 symbol source that also has a bad byte
InvalidLengthWitness ==
    /\ op = "AppendDecode"
    /\ Len(src) = 11
    /\ ~AllAccepted(src)
    /\ err = ErrInvalidBase32Length

\* the call `name` made again with destination d and source s
Redo(name, d, s) ==
    CASE name = "Decode" -> Decode(s)
      [] name = "AppendDecode" -> AppendDecode(d, s)
      [] name = "UnsafeDecode" -> UnsafeDecode(d, s)

\* outcome o has the error outcome of the last call and, on success, its bytes
SameResult(o) ==
    /\ o.panic = panicMsg
    /\ o.err = err
    /\ (err = ErrNil /\ panicMsg = NoPanic) => o.ret = ret

\* the non-empty subsets of L that are tried: all of them when L is small, otherwise
\* the singletons, their complements and L itself
PosSets(L) ==
    (IF Cardinality(L) <= MaxSymTail
     THEN SUBSET L
     ELSE {{p} : p \in L} \cup {L \ {p} : p \in L} \cup {L}) \ {{}}

\* 'O' 'o' stand for '0'; 'I' 'i' 'L' 'l' stand for '1'
AliasTarget(c) ==
    CASE c \in {79, 111} -> 48
      [] c \in {73, 105, 76, 108} -> 49
      [] OTHER -> c

AliasPositions(s) == {i \in 1..Len(s) : AliasTarget(s[i]) # s[i]}

SubstAliases(s, P) == [i \in 1..Len(s) |-> IF i \in P THEN AliasTarget(s[i]) ELSE s[i]]

\* C5: replacing occurrences of O, o by 0 and of I, i, L, l by 1, at any positions,
\* leaves the error outcome of a decode call and, on success, its bytes unchanged.
AliasEquivalence ==
    op \in DecodeOps =>
        \A P \in PosSets(AliasPositions(src)) : SameResult(Redo(op, dst, SubstAliases(src, P)))

\* a 10 symbol source with aliases in both of its tail symbols was decoded successfully
AliasWitness ==
    /\ op = "Decode"
    /\ Len(src) = 10
    /\ AliasPositions(src) = {9, 10}
    /\ err = ErrNil
    /\ Decode(SubstAliases(src, {9, 10})).ret = ret

FlipCase(c) ==
    IF c \in 65..90 THEN c + 32 ELSE IF c \in 97..122 THEN c - 32 ELSE c

LetterPositions(s) == {i \in 1..Len(s) : FlipCase(s[i]) # s[i]}

FlipCases(s, P) == [i \in 1..Len(s) |-> IF i \in P THEN FlipCase(s[i]) ELSE s[i]]

\* the subsets of the letter positions L whose case is changed: those of PosSets for
\* Decode, all of L at once for the calls that take a destination
CaseSets(name, L) == IF name = "Decode" THEN PosSets(L) ELSE {L} \ {{}}

\* C6: changing the case of any subset of the letters of the source leaves the error
\* outcome of a decode call and, on success, its bytes unchanged; an accepted letter has
\* the same value in upper and in lower case.
CaseInsensitivity ==
    /\ op \in DecodeOps =>
          \A P \in CaseSets(op, LetterPositions(src)) : SameResult(Redo(op, dst, FlipCases(src, P)))
    /\ \A c \in 65..90 :
          (decodeTab[c] # b32Invalid \/ decodeTab[c + 32] # b32Invalid)
              => decodeTab[c] = decodeTab[c + 32]

\* a 12 symbol source with letters of both cases was decoded successfully
CaseWitness ==
    /\ op = "Decode"
    /\ Len(src) = 12
    /\ \E i, j \in LetterPositions(src) : src[i] \in 65..90 /\ src[j] \in 97..122
    /\ err = ErrNil
    /\ Decode(FlipCases(src, LetterPositions(src))).ret = ret

\* the exact, unbounded value of the encoded length expression
ExactEncodedLen(n) == (n \div 5) * 8 + (((n % 5) * 8 + 4) \div 5)

\* C7: whenever EncodedLength(n) is not -1 for an n >= 0, its decoded length is
\* valid and equals n.
LengthInverse ==
    (op = "EncodedLength" /\ lenArg >= 0 /\ lenRet # -1) =>
        decodedLen(lenRet) # -1 /\ decodedLen(lenRet) = lenArg

\* the largest source length that can be encoded comes back from its encoded length
LengthInverseWitness ==
    /\ op = "EncodedLength"
    /\ lenArg = (MaxInt \div 8) * 5 + 4
    /\ lenRet = MaxInt
    /\ decodedLen(lenRet) = lenArg

\* C8: EncodedLength(n) is -1 when n < 0 or when the exact value of the expression
\* exceeds the maximum integer, and is that exact value otherwise; (M/8)*5 is accepted
\* and (M/8)*5 + 5 is rejected.
EncodedLengthExact ==
    op = "EncodedLength" =>
        /\ lenRet = (IF lenArg < 0 THEN -1
                     ELSE IF ExactEncodedLen(lenArg) > MaxInt THEN -1
                     ELSE ExactEncodedLen(lenArg))
        /\ lenArg = 0 => lenRet = 0
        /\ lenArg = (MaxInt \div 8) * 5 => lenRet = (MaxInt \div 8) * 8
        /\ lenArg = (MaxInt \div 8) * 5 + 5 => lenRet = -1

\* the first source length whose encoded length overflows has been rejected
EncodedLengthWitness ==
    /\ op = "EncodedLength"
    /\ lenArg = (MaxInt \div 8) * 5 + 5
    /\ ExactEncodedLen(lenArg) = MaxInt + 1
    /\ lenRet = -1

\* C9: decodedLen(n) is -1 for every n >= 0 of remainder 1, 3 or 6, and is neither -1
\* nor <= 0 for every n > 0 of remainder 0, 2, 4, 5 or 7, up to the maximum integer.
RemainderValidity ==
    op = "decodedLen" =>
        /\ lenArg % 8 \in {1, 3, 6} => lenRet = -1
        /\ (lenArg > 0 /\ lenArg % 8 \in {0, 2, 4, 5, 7}) => (lenRet # -1 /\ lenRet > 0)

\* decodedLen accepted the maximum integer, of remainder 7
RemainderValidityWitness ==
    /\ op = "decodedLen"
    /\ lenArg = MaxInt
    /\ lenArg % 8 = 7
    /\ lenRet > 0

\* bytes decoded from a trailing group of r symbols
ExtraBytes(r) == CASE r = 2 -> 1 [] r = 4 -> 2 [] r = 5 -> 3 [] r = 7 -> 4 [] OTHER -> 0

\* C10: for a valid remainder decodedLen(n) = (n/8)*5 + extra = floor(5*n/8); the closed
\* form and the switch form of b32DecodedLen agree for every n >= 0; decodedLen(0) = 0.
DecodedLenFormula ==
    op = "decodedLen" =>
        /\ lenArg % 8 \in {0, 2, 4, 5, 7} =>
              /\ lenRet = (lenArg \div 8) * 5 + ExtraBytes(lenArg % 8)
              /\ lenRet = (5 * lenArg) \div 8
        /\ lenRet = b32DecodedLen(lenArg)
        /\ lenArg = 0 => lenRet = 0

\* decodedLen returned 19 for the 31 symbols of the reference encoding
DecodedLenWitness ==
    /\ op = "decodedLen"
    /\ lenArg = 31
    /\ lenRet = 19
    /\ b32DecodedLen(31) = 19

\* C11: UnsafeEncode panics with the source length message when the source is empty or
\* its length cannot be encoded, with the destination message when the source is not
\* empty and the destination is shorter than EncodedLength(len(src)), and otherwise
\* completes; it never reports an error.
UnsafeEncodePanics ==
    op = "UnsafeEncode" =>
        /\ err = ErrNil
        /\ panicMsg =
              (IF Len(src) = 0 \/ EncodedLength(Len(src)) = -1 THEN PanicEncodeSrcLen
               ELSE IF Len(dst.elems) < EncodedLength(Len(src)) THEN PanicEncodeDstShort
               ELSE NoPanic)

\* UnsafeEncode panicked on a destination one byte short of the 21 symbols of a 13 byte source
UnsafeEncodePanicsWitness ==
    /\ op = "UnsafeEncode"
    /\ Len(src) = 13
    /\ Len(dst.elems) = 20
    /\ panicMsg = PanicEncodeDstShort

\* C12: UnsafeDecode panics with the source length message when the source is empty or
\* of remainder 1, 3 or 6, with the destination message when the length is valid and the
\* destination is shorter than decodedLen(len(src)), and otherwise never panics: invalid
\* characters and tail bits come back as the error only.
UnsafeDecodePanics ==
    op = "UnsafeDecode" =>
        /\ panicMsg =
              (IF Len(src) = 0 \/ Len(src) % 8 \in {1, 3, 6} THEN PanicDecodeSrcLen
               ELSE IF Len(dst.elems) < decodedLen(Len(src)) THEN PanicDecodeDstShort
               ELSE NoPanic)
        /\ panicMsg # NoPanic => err = ErrNil
        /\ err \in {ErrNil, ErrInvalidBase32Char}

\* UnsafeDecode returned the character error, without panicking, for a source of valid length
UnsafeDecodePanicsWitness ==
    /\ op = "UnsafeDecode"
    /\ Len(src) = 10
    /\ ~AllAccepted(src)
    /\ panicMsg = NoPanic
    /\ err = ErrInvalidBase32Char

\* C13: for an empty source Encode returns nil, EncodeString "", Decode (nil, nil), and
\* AppendEncode, AppendEncodeString and AppendDecode return dst itself (nil stays nil)
\* with a nil error; none of them invokes encode or decode and none panics.
EmptyInput ==
    (Len(src) = 0 /\ op \in {"Encode", "EncodeString", "Decode",
                             "AppendEncode", "AppendEncodeString", "AppendDecode"}) =>
        /\ op = "Encode" => ret = NilSlice
        /\ op = "EncodeString" => ret = Slice(<< >>)
        /\ op = "Decode" => ret = NilSlice
        /\ op \in {"AppendEncode", "AppendEncodeString", "AppendDecode"} => ret = dst
        /\ err = ErrNil
        /\ panicMsg = NoPanic
        /\ ~engine

\* AppendDecode of an empty source gave back its non-empty destination without decoding
EmptyInputWitness ==
    /\ op = "AppendDecode"
    /\ Len(src) = 0
    /\ dst = Slice(DstPrefix)
    /\ ret = dst
    /\ ~engine

AppendOps == {"AppendEncode", "AppendEncodeString", "AppendDecode"}

\* s starts with p
StartsWith(s, p) == Len(s) >= Len(p) /\ \A i \in 1..Len(p) : s[i] = p[i]

\* what an Append* call on a non-empty source returns on success: dst followed by the
\* result of Encode or Decode
AppendsResult ==
    /\ op \in {"AppendEncode", "AppendEncodeString"} =>
          ret.elems = dst.elems \o Encode(src).ret.elems
    /\ (op = "AppendDecode" /\ err = ErrNil) =>
          ret.elems = dst.elems \o Decode(src).ret.elems

\* the result keeps dst as its first bytes and is longer by the encoded or decoded length
KeepsDst ==
    /\ StartsWith(ret.elems, dst.elems)
    /\ Len(ret.elems) = Len(dst.elems)
          + (IF op = "AppendDecode" THEN decodedLen(Len(src)) ELSE EncodedLength(Len(src)))

\* C14 as stated: for every dst and non-empty src the Append* calls return dst followed
\* by the encoding or, on success, the decoding, and the result always keeps dst as its
\* first bytes and has the length of dst plus the encoded or decoded length.
AppendSemanticsAlways ==
    (op \in AppendOps /\ Len(src) > 0) => (AppendsResult /\ KeepsDst)

\* C14, amended: the same, except that an AppendDecode that returns
\* ErrInvalidBase32Length returns nil and keeps nothing of dst.
AppendSemantics ==
    (op \in AppendOps /\ Len(src) > 0) =>
        /\ AppendsResult
        /\ err # ErrInvalidBase32Length => KeepsDst

\* AppendDecode hit a bad symbol in the tail of a 12 symbol source: the result is dst
\* followed by room for the 7 decoded bytes
AppendSemanticsWitness ==
    /\ op = "AppendDecode"
    /\ dst = Slice(DstPrefix)
    /\ Len(src) = 12
    /\ err = ErrInvalidBase32Char
    /\ StartsWith(ret.elems, DstPrefix)
    /\ Len(ret.elems) = 9

\* C15: a Decode or AppendDecode that returns ErrInvalidBase32Length returns a nil
\* slice, also when AppendDecode was given a non-empty dst.
NilOnInvalidLength ==
    (op \in {"Decode", "AppendDecode"} /\ err = ErrInvalidBase32Length) => ret = NilSlice

\* AppendDecode with a non-empty dst and a source of 11 symbols returned nil
NilOnInvalidLengthWitness ==
    /\ op = "AppendDecode"
    /\ dst = Slice(DstPrefix)
    /\ Len(src) = 11
    /\ err = ErrInvalidBase32Length
    /\ ret.isNil

\* the bytes of the memory at offsets a .. a + l - 1
Region(a, l) == SubSeq(heap, a + 1, a + l)

\* the destination and the error of call c when it runs alone: encode or decode
\* applied to its source and an unwritten destination
Alone(c) ==
    LET fresh == [x \in 1..c.dlen |-> Unwritten]
    IN  IF c.kind = "encode" THEN [mem |-> encode(fresh, 0, c.src0, c.n), err |-> ErrNil]
        ELSE decode(fresh, 0, c.src0)

\* C16: Concurrent independence: when encode and decode calls run concurrently on
\* pairwise disjoint buffers, interleaved at single byte reads and writes, in every
\* reachable state the source of every call is as the caller left it, the part of the
\* destination the call has written so far holds the bytes the call writes when run
\* alone and the rest is untouched, and a call that is done has the destination and
\* the error of the call run alone.
ConcurrentIndependence ==
    \A i \in DOMAIN calls :
        LET c == calls[i]
            alone == Alone(c)
        IN  /\ Region(c.srcAt, c.n) = c.src0
            /\ Region(c.dstAt, c.dlen) =
                  [x \in 1..c.dlen |-> IF x <= c.d + c.w THEN alone.mem[x] ELSE Unwritten]
            /\ c.pc = "done" => (Region(c.dstAt, c.dlen) = alone.mem /\ c.err = alone.err)
            /\ c.pc # "done" => c.err = ErrNil

\* an encode call is in the middle of writing its tail after a concurrent decode
\* call was rejected with one group written
ConcurrentIndependenceWitness ==
    /\ calls # << >>
    /\ calls[1].kind = "encode" /\ calls[1].pc = "write" /\ calls[1].tail /\ calls[1].w = 1
    /\ calls[2].kind = "decode" /\ calls[2].pc = "done"
    /\ calls[2].err = ErrInvalidBase32Char /\ calls[2].d = 5

\* C17: Table immutability: in every state reachable by any sequence of Encode,
\* Decode, Append*, Unsafe* and length function calls, including calls that return an
\* error or panic, encodeTab and decodeTab equal the contents the initialiser gave them.
TableImmutability ==
    /\ encodeTab = initTables.enc
    /\ decodeTab = initTables.dec

\* the tables are intact after a decode that wrote a group and then rejected the source
TableImmutabilityWitness ==
    /\ op = "Decode" /\ Len(src) = 10 /\ err = ErrInvalidBase32Char /\ engine
    /\ decodeTab[src[10]] = b32Invalid
    /\ decodeTab = initTables.dec /\ encodeTab = initTables.enc

\* the alphabet as TestTables spells it: "0123456789ABCDEFGHJKMNPQRSTVWXYZ"
canonicalChars ==
    << 48, 49, 50, 51, 52, 53, 54, 55, 56, 57,
       65, 66, 67, 68, 69, 70, 71, 72, 74, 75, 77, 78,
       80, 81, 82, 83, 84, 86, 87, 88, 89, 90 >>

\* validChar of TestTables: c upper cased, O mapped to 0 and I, L to 1, and its
\* index in the alphabet, -1 when it is not there
validChar(c) ==
    LET up == IF c >= 97 /\ c <= 122 THEN c - (97 - 65) ELSE c
        uc == CASE up = 79 -> 48
                [] up = 73 -> 49
                [] up = 76 -> 49
                [] OTHER -> up
        at == {i \in 1..Len(canonicalChars) : canonicalChars[i] = uc}
    IN  [uc |-> uc, i |-> IF at = {} THEN -1 ELSE (CHOOSE i \in at : TRUE) - 1]

\* the reverse table the alphabet and the alias rules prescribe
ExpectedDecodeTab ==
    [c \in 0..255 |-> IF validChar(c).i = -1 THEN b32Invalid ELSE validChar(c).i]

AlphaNumeric == (48..57) \cup (65..90) \cup (97..122)

\* the bytes the alias assignments write: 'O' 'o' 'I' 'i' 'L' 'l'
AliasBytes == {79, 111, 73, 105, 76, 108}

\* decodeTab holds for every byte value the index of its canonical character, or the
\* sentinel; 'U', 'u' and the non-alphanumeric bytes hold the sentinel; the alias
\* assignments leave the entries of the canonical characters as the loop wrote them
ReverseTableMain ==
    /\ decodeTab = ExpectedDecodeTab
    /\ decodeTab[85] = b32Invalid
    /\ decodeTab[117] = b32Invalid
    /\ \A c \in (0..255) \ AlphaNumeric : decodeTab[c] = b32Invalid
    /\ \A i \in 1..Len(canonicalChars) :
          LET v == canonicalChars[i]
          IN  /\ v \notin AliasBytes
              /\ decodeTab[v] = i - 1
              /\ v > 57 => (v + b32UpToLow \notin AliasBytes /\ decodeTab[v + b32UpToLow] = i - 1)

\* C18 as stated: Reverse table contents, with the sentinel also at the ten bytes
\* that lie 'a' - 'A' above a digit.
ReverseTableShiftedDigits ==
    /\ ReverseTableMain
    /\ \A c \in 48..57 : decodeTab[c + b32UpToLow] = b32Invalid

\* C18, amended: Reverse table contents: for each of the 256 byte values c,
\* decodeTab[c] is the index in the alphabet of c after upper casing and mapping O to 0
\* and I, L to 1, and the sentinel 0xFF when that character is not in the alphabet (in
\* particular for 'U', 'u' and all non-alphanumeric bytes); a byte 'a' - 'A' above a
\* digit holds the value of the letter it is and never the value of the digit; the
\* alias assignments overwrite no entry of a canonical character.
ReverseTable ==
    /\ ReverseTableMain
    /\ \A c \in 48..57 :
          /\ decodeTab[c + b32UpToLow] # decodeTab[c]
          /\ decodeTab[c + b32UpToLow] = ExpectedDecodeTab[c + b32UpToLow]

\* a decode consulted the table for 'P', the byte 'a' - 'A' above '0', and got 22;
\* another entry of the same table is the sentinel for 'U', the byte above '5'
ReverseTableWitness ==
    /\ op = "Decode" /\ err = ErrNil /\ Len(src) = 2 /\ src[1] = 80 /\ engine
    /\ decodeTab[80] = 22 /\ decodeTab[48] = 0
    /\ decodeTab[85] = b32Invalid /\ decodeTab[53] = 5

\* C19: Forward table: encodeTab maps the 32 values 0..31 one-to-one onto the 32
\* distinct characters of "0123456789ABCDEFGHJKMNPQRSTVWXYZ" in index order, and
\* decodeTab[encodeTab[v]] = v for every v in 0..31.
ForwardTable ==
    /\ DOMAIN encodeTab = 0..31
    /\ \A v \in 0..31 : encodeTab[v] = canonicalChars[v + 1]
    /\ \A v, w \in 0..31 : encodeTab[v] = encodeTab[w] => v = w
    /\ Cardinality({encodeTab[v] : v \in 0..31}) = 32
    /\ {encodeTab[v] : v \in 0..31} = {canonicalChars[i] : i \in 1..Len(canonicalChars)}
    /\ \A v \in 0..31 : decodeTab[encodeTab[v]] = v

\* an encode of the byte 0xFF used the entries 31 and 28 of the table and returned
\* "ZW"; the reverse table takes both symbols back to 31 and 28
ForwardTableWitness ==
    /\ op = "Encode" /\ src = <<255>> /\ err = ErrNil /\ engine
    /\ ret.elems = <<encodeTab[31], encodeTab[28]>>
    /\ encodeTab[31] = 90 /\ decodeTab[90] = 31
    /\ encodeTab[28] = 87 /\ decodeTab[87] = 28

\* C20: Reference vectors: encoding the first k bytes of "1234567890123456789" yields
\* the expected string for k = 5, 15, 16, 17, 18 and 19, and decoding each of these
\* strings yields the corresponding k bytes with no error.
ReferenceVectors ==
    \A k \in DOMAIN RefVectors :
        /\ (op \in {"Encode", "EncodeString"} /\ src = SubSeq(RefSrc, 1, k)) =>
               (ret.elems = RefVectors[k] /\ err = ErrNil /\ panicMsg = NoPanic)
        /\ (op = "Decode" /\ src = RefVectors[k]) =>
               (ret.elems = SubSeq(RefSrc, 1, k) /\ err = ErrNil /\ panicMsg = NoPanic)

\* the 28 symbols expected of 17 bytes were decoded to the first 17 bytes of the source
ReferenceVectorsWitness ==
    /\ op = "Decode" /\ src = RefVectors[17] /\ Len(src) = 28 /\ engine
    /\ ret.elems = SubSeq(RefSrc, 1, 17) /\ err = ErrNil

\* bit p, counted from 0 at the most significant bit of the first byte, of the
\* big-endian concatenation of the bytes of s followed by zero bits
SrcBit(s, p) == IF p >= 8 * Len(s) THEN 0 ELSE Bit(s[(p \div 8) + 1], 7 - (p % 8))

\* the i-th 5 bit chunk, counted from 0, of that bit string
Chunk(s, i) ==
    16 * SrcBit(s, 5 * i) + 8 * SrcBit(s, 5 * i + 1) + 4 * SrcBit(s, 5 * i + 2)
    + 2 * SrcBit(s, 5 * i + 3) + SrcBit(s, 5 * i + 4)

\* C21: Encoder against a bit-string reference: for every non-empty src of length n,
\* the output has EncodedLength(n) symbols and symbol i is encodeTab[v_i], v_i the i-th
\* 5 bit chunk of the big-endian concatenation of the bytes of src padded at the end
\* with zero bits, for full groups and for trailing groups of 1, 2, 3 or 4 bytes.
EncoderBitReference ==
    (op \in {"Encode", "EncodeString", "UnsafeEncode"} /\ Len(src) > 0 /\ engine) =>
        /\ Len(ret.elems) >= EncodedLength(Len(src))
        /\ op # "UnsafeEncode" => Len(ret.elems) = EncodedLength(Len(src))
        /\ \A i \in 0..(EncodedLength(Len(src)) - 1) :
              /\ Chunk(src, i) \in 0..31
              /\ ret.elems[i + 1] = encodeTab[Chunk(src, i)]

\* a full group and a tail of four bytes 0xA5 0xFF 0x00 0xA5 were encoded: the last
\* of the 15 symbols carries the two low bits of the last byte and three zero bits
EncoderBitReferenceWitness ==
    /\ op = "Encode" /\ Len(src) = 9 /\ engine
    /\ SubSeq(src, 6, 9) = <<165, 255, 0, 165>>
    /\ Len(ret.elems) = 15
    /\ Chunk(src, 14) = 8
    /\ ret.elems[15] = encodeTab[8]

\* bit p, counted from 0 at the most significant bit of the first value, of the
\* big-endian concatenation of the 5 bit values decodeTab[s[i]]
ValBit(s, p) == Bit(decodeTab[s[(p \div 5) + 1]], 4 - (p % 5))

\* bits 8j .. 8j+7 of that bit string as a byte
BitsByte(s, j) ==
    128 * ValBit(s, 8 * j) + 64 * ValBit(s, 8 * j + 1) + 32 * ValBit(s, 8 * j + 2)
    + 16 * ValBit(s, 8 * j + 3) + 8 * ValBit(s, 8 * j + 4) + 4 * ValBit(s, 8 * j + 5)
    + 2 * ValBit(s, 8 * j + 6) + ValBit(s, 8 * j + 7)

\* the left shifts of the decode formulas keep every bit of a 5 bit value v
ShiftsLossless(v) ==
    /\ Shl(v, 3) = v * 8
    /\ Shl(And(v, 3), 6) = And(v, 3) * 64
    /\ Shl(v, 1) = v * 2
    /\ Shl(And(v, 15), 4) = And(v, 15) * 16
    /\ Shl(And(v, 1), 7) = And(v, 1) * 128
    /\ Shl(v, 2) = v * 4
    /\ Shl(And(v, 7), 5) = And(v, 7) * 32

\* C22: Decoder against a bit-string reference: whenever decode returns nil for a src
\* of length n, output byte j (0 <= j < decodedLen(n)) equals bits 8j..8j+7 of the
\* big-endian concatenation of the 5 bit values decodeTab[src[i]], for full groups and
\* for trailing groups of 2, 4, 5 or 7 symbols, and no left shift of the formulas
\* discards a bit of a value.
DecoderBitReference ==
    (op \in {"Decode", "UnsafeDecode"} /\ Len(src) > 0 /\ engine /\ err = ErrNil) =>
        /\ Len(ret.elems) >= decodedLen(Len(src))
        /\ op = "Decode" => Len(ret.elems) = decodedLen(Len(src))
        /\ \A j \in 0..(decodedLen(Len(src)) - 1) : ret.elems[j + 1] = BitsByte(src, j)
        /\ \A i \in 1..Len(src) : ShiftsLossless(decodeTab[src[i]])

\* the reference encoding of 17 bytes, a source of three full groups and a tail of
\* four symbols, was decoded; its last byte is bits 128..135 of the 140 bit string
DecoderBitReferenceWitness ==
    /\ op = "Decode" /\ Len(src) = 28 /\ engine /\ err = ErrNil
    /\ Len(ret.elems) = 17
    /\ BitsByte(src, 16) = 55
    /\ ret.elems[17] = 55

\* symbols the encoder emits for a trailing group of r bytes
TailSymbols(r) == CASE r = 1 -> 2 [] r = 2 -> 4 [] r = 3 -> 5 [] r = 4 -> 7 [] OTHER -> 0

\* C23: Length symmetry: a symbol count m >= 0 is accepted by decodedLen (result not
\* -1) if and only if m = EncodedLength(n) for some n >= 0; trailing groups of 1, 2, 3,
\* 4 source bytes produce exactly 2, 4, 5, 7 symbols, so no encoder output has length
\* mod 8 in {1, 3, 6} and every accepted length is the length of some encoder output.
LengthSymmetry ==
    /\ op = "decodedLen" =>
          ((lenRet # -1) <=> (\E n \in 0..lenArg : EncodedLength(n) = lenArg))
    /\ (op = "EncodedLength" /\ lenArg >= 0 /\ lenRet # -1) =>
          /\ lenRet % 8 \notin {1, 3, 6}
          /\ decodedLen(lenRet) # -1
          /\ lenRet = 8 * (lenArg \div 5) + TailSymbols(lenArg % 5)
          /\ Len(encodeTail(lenArg % 5, Zeros(lenArg % 5))) = TailSymbols(lenArg % 5)

\* decodedLen accepted 12 symbols, the encoded length of 7 bytes: a full group and
\* the four symbols of a two byte tail
LengthSymmetryWitness ==
    /\ op = "decodedLen" /\ lenArg = 12 /\ lenRet = 7
    /\ EncodedLength(7) = 12
    /\ Len(encodeTail(2, Zeros(2))) = 4

\* C24: Exact fill: a call of UnsafeEncode, and a successful call of UnsafeDecode, on
\* a destination longer than the required length r writes every byte dst[0 .. r-1]
\* and leaves every byte of dst at index >= r unchanged; src is never modified.
ExactFill ==
    \A i \in DOMAIN calls :
        LET c == calls[i]
            r == RequiredLen(c.kind, c.n)
            written == IF c.kind = "encode" THEN encode(Zeros(r), 0, c.src0, c.n)
                       ELSE decode(Zeros(r), 0, c.src0).mem
        IN  /\ Region(c.srcAt, c.n) = c.src0
            /\ \A x \in (r + 1)..c.dlen : heap[c.dstAt + x] = Unwritten
            /\ (c.pc = "done" /\ c.err = ErrNil) => Region(c.dstAt, r) = written

\* an encode of six bytes into eleven and a decode of ten symbols into eight are both
\* done: ten and six bytes are written, the bytes behind them are as they were
ExactFillWitness ==
    /\ calls # << >>
    /\ calls[1].kind = "encode" /\ calls[1].pc = "done" /\ calls[1].dlen = 11
    /\ heap[calls[1].dstAt + 10] = encodeTab[24] /\ heap[calls[1].dstAt + 11] = Unwritten
    /\ calls[2].kind = "decode" /\ calls[2].pc = "done" /\ calls[2].err = ErrNil
    /\ calls[2].dlen = 8
    /\ heap[calls[2].dstAt + 6] = 54 /\ heap[calls[2].dstAt + 7] = Unwritten

\* C25: Panic precedence in the Unsafe* entry points: when the source length is
\* invalid, whatever the destination (nil or empty included), UnsafeEncode panics with
\* "base32: invalid encode source length" and UnsafeDecode with "base32: invalid decode
\* source length"; the destination-too-short panic is raised only when the source
\* length is valid, and a call that panics has not entered encode or decode and has
\* left dst as it was.
PanicPrecedence ==
    /\ op = "UnsafeEncode" =>
          /\ Len(src) = 0 => panicMsg = PanicEncodeSrcLen
          /\ panicMsg = PanicEncodeDstShort =>
                (Len(src) > 0 /\ EncodedLength(Len(src)) > Len(dst.elems))
    /\ op = "UnsafeDecode" =>
          /\ (Len(src) = 0 \/ Len(src) % 8 \in {1, 3, 6}) => panicMsg = PanicDecodeSrcLen
          /\ panicMsg = PanicDecodeDstShort =>
                (Len(src) > 0 /\ Len(src) % 8 \in {0, 2, 4, 5, 7}
                 /\ decodedLen(Len(src)) > Len(dst.elems))
    /\ (op \in {"UnsafeEncode", "UnsafeDecode"} /\ panicMsg # NoPanic) =>
          (~engine /\ ret = dst /\ err = ErrNil)

\* UnsafeDecode of a three symbol source into a nil destination panicked with the
\* source length message
PanicPrecedenceWitness ==
    /\ op = "UnsafeDecode" /\ Len(src) = 3 /\ dst = NilSlice
    /\ panicMsg = PanicDecodeSrcLen /\ ~engine /\ ret = NilSlice

\* C26: No false rejection: for every src of structurally valid non-zero length in
\* which every byte maps to a value 0..31 and, when the length is not a multiple of 8,
\* the unused low bits of the last value are zero, decode returns nil; when the length
\* is a multiple of 8 no tail-bit condition applies.
NoFalseRejection ==
    ( /\ op \in DecodeOps
      /\ panicMsg = NoPanic
      /\ Len(src) > 0
      /\ Len(src) % 8 \in {0, 2, 4, 5, 7}
      /\ \A i \in 1..Len(src) : decodeTab[src[i]] \in 0..31
      /\ Len(src) % 8 # 0 => decodeTab[src[Len(src)]] % 2^UnusedBits(Len(src) % 8) = 0 )
    => (err = ErrNil /\ engine)

\* a source of 13 accepted symbols whose last value is 2, with bit 1 set and the one
\* unused bit clear, was decoded without error
NoFalseRejectionWitness ==
    /\ op = "Decode" /\ Len(src) = 13
    /\ \A i \in 1..13 : decodeTab[src[i]] \in 0..31
    /\ decodeTab[src[13]] = 2
    /\ err = ErrNil /\ Len(ret.elems) = 8

\* s with every letter upper cased, O replaced by 0 and I, L by 1
Canonical(s) == [i \in 1..Len(s) |-> validChar(s[i]).uc]

\* C27: Canonical uniqueness: for every src on which Decode succeeds with result d,
\* Encode(d) equals src after upper casing every letter and replacing O by 0 and I, L
\* by 1, so that accepted strings with the same decoding differ only in case and
\* aliases; every output of Encode consists only of the 32 canonical characters.
CanonicalUniqueness ==
    /\ (op = "Decode" /\ err = ErrNil) =>
          LET e == Encode(ret.elems)
          IN  e.panic = NoPanic /\ e.err = ErrNil /\ e.ret.elems = Canonical(src)
    /\ op \in {"Encode", "EncodeString"} =>
          \A i \in 1..Len(ret.elems) :
              \E v \in 1..Len(canonicalChars) : ret.elems[i] = canonicalChars[v]

\* the ten symbols "64S36DlN6R" with a lower case l for the 1 were decoded, and the
\* encoding of the result is "64S36D1N6R"
CanonicalUniquenessWitness ==
    /\ op = "Decode" /\ Len(src) = 10 /\ src[7] = 108 /\ err = ErrNil
    /\ Encode(ret.elems).ret.elems = SubSeq(RefEnc, 1, 10)
    /\ Canonical(src) = SubSeq(RefEnc, 1, 10)

\* the symbols of group g of s, counted from 0: eight, or the trailing Len(s) % 8
GroupSymbols(s, g) == SubSeq(s, 8 * g + 1, IF 8 * g + 8 <= Len(s) THEN 8 * g + 8 ELSE Len(s))

\* group g of s has a byte outside the alphabet or, as a trailing group, a last value
\* with a set unused bit
Offending(s, g) ==
    LET t == GroupSymbols(s, g)
    IN  \/ \E x \in 1..Len(t) : decodeTab[t[x]] = b32Invalid
        \/ Len(t) < 8 /\ decodeTab[t[Len(t)]] % 2^UnusedBits(Len(t)) # 0

\* the groups of s: 0 .. (number of groups) - 1
GroupIndices(s) == 0..(((Len(s) + 7) \div 8) - 1)

\* C28: Partial write on error: when decode returns ErrInvalidBase32Char and the first
\* offending group is group k counting from 0, then dst[0 .. 5k-1] hold the decoded
\* bytes of groups 0..k-1 and every byte of dst at index >= 5k is unchanged; no byte
\* of the offending group is written and no symbol behind that group is examined.
PartialWriteOnError ==
    \A i \in DOMAIN calls :
        LET c == calls[i]
        IN  (c.kind = "decode" /\ c.pc = "done" /\ c.err = ErrInvalidBase32Char) =>
                \E k \in GroupIndices(c.src0) :
                    /\ Offending(c.src0, k)
                    /\ \A g \in 0..(k - 1) : ~Offending(c.src0, g)
                    /\ \A x \in 1..(5 * k) : heap[c.dstAt + x] = BitsByte(c.src0, x - 1)
                    /\ \A x \in (5 * k + 1)..c.dlen : heap[c.dstAt + x] = Unwritten
                    /\ c.d = 5 * k /\ c.w = 0
                    /\ c.s + Len(c.regs) <= 8 * k + Len(GroupSymbols(c.src0, k))

\* one decode was rejected in its trailing group with the five bytes of its first
\* group written; another was rejected in its first group with nothing written and
\* its two trailing symbols never read
PartialWriteOnErrorWitness ==
    /\ calls # << >>
    /\ calls[1].kind = "decode" /\ calls[1].err = ErrInvalidBase32Char
    /\ calls[1].d = 5 /\ Region(calls[1].dstAt, 5) = SubSeq(RefSrc, 1, 5)
    /\ heap[calls[1].dstAt + 6] = Unwritten
    /\ calls[2].kind = "decode" /\ calls[2].err = ErrInvalidBase32Char
    /\ calls[2].d = 0 /\ calls[2].s + Len(calls[2].regs) = 8 /\ calls[2].n = 10
    /\ heap[calls[2].dstAt + 1] = Unwritten

\* C29: Error precedence: Decode and AppendDecode test the length before they read a
\* symbol: a non-empty src whose length mod 8 is 1, 3 or 6 and which also has bytes
\* outside the alphabet yields ErrInvalidBase32Length, never ErrInvalidBase32Char, and
\* no destination is allocated or written: decode is not entered and nil is returned.
ErrorPrecedence ==
    ( /\ op \in {"Decode", "AppendDecode"}
      /\ Len(src) > 0
      /\ Len(src) % 8 \in {1, 3, 6}
      /\ \E i \in 1..Len(src) : decodeTab[src[i]] = b32Invalid )
    => /\ err = ErrInvalidBase32Length
       /\ err # ErrInvalidBase32Char
       /\ panicMsg = NoPanic
       /\ ~engine
       /\ ret = NilSlice

\* Decode of the three symbols "UUU", none of them in the alphabet, returned nil and
\* the length error
ErrorPrecedenceWitness ==
    /\ op = "Decode" /\ src = <<85, 85, 85>>
    /\ err = ErrInvalidBase32Length /\ ~engine /\ ret = NilSlice

\* C30: Memory safety of the pointer traversal: whenever the guards of the entry
\* points pass, every read by encode and decode is at a source offset in [0, len(src))
\* and every write is at a destination offset in [0, required length), for every
\* source length and remainder class; the source and destination pointers never
\* advance past the end of their buffers.
MemorySafety ==
    \A i \in DOMAIN calls :
        LET c == calls[i]
            r == RequiredLen(c.kind, c.n)
        IN  /\ c.n > 0 /\ r > 0 /\ c.dlen >= r
            /\ c.pc = "read" =>
                  /\ c.s + Len(c.regs) \in 0..(c.n - 1)
                  /\ SrcAddr(c, Len(c.regs)) \in (c.srcAt + 1)..(c.srcAt + c.n)
            /\ c.pc = "write" =>
                  /\ c.d + c.w \in 0..(r - 1)
                  /\ DstAddr(c, c.w) \in (c.dstAt + 1)..(c.dstAt + r)
            /\ c.s \in 0..c.n
            /\ c.d \in 0..r

\* the encode of 15 bytes, three full groups and no tail, is about to write the last
\* of its 24 symbols, with both pointers at the start of the last group
MemorySafetyWitness ==
    /\ calls # << >>
    /\ calls[1].kind = "encode" /\ calls[1].n = 15 /\ calls[1].dlen = 24
    /\ calls[1].pc = "write" /\ calls[1].s = 10 /\ calls[1].d = 16 /\ calls[1].w = 7
    /\ DstAddr(calls[1], 7) = calls[1].dstAt + 24

====
